---- MODULE Spec2Model ----
(***************************************************************************)
(* Lumina Sales Agent backend: the chat endpoint (session state machine,   *)
(* lead capture, retrieval, prompt assembly, completion) and the ingestion *)
(* pipeline writing to the tenant-tagged hybrid vector store.              *)
(* Sources: src/backend/app.py, src/backend/ingestion.py,                  *)
(* src/backend/vector_store.py.                                            *)
(***************************************************************************)
EXTENDS Integers, Sequences, FiniteSets, TLC

(***************************************************************************)
(* Bounds of the model.                                                    *)
(***************************************************************************)
\* chat requests of a run (each request is one invocation of the handler)
NumRequests == 3
\* chat requests the threaded server handles at the same time
NumThreads == 2
\* content fragments the completion service streams for one request, at most
MaxFragments == 2
\* length of a text given to the chunker, and its chunk_size, at most
MaxTextLen == 4
MaxChunkSize == 3
\* chunk_size and overlap of the call in ingest_url (ingestion.py:242): the
\* defaults 500 and 50 of ingestion.py:135, scaled to the page texts below
IngestChunkSize == 4
IngestOverlap == 1

Requests == 1..NumRequests
Threads  == 1..NumThreads

(***************************************************************************)
(* Text. A string is a tuple of one-character strings.                     *)
(***************************************************************************)
Lower == {"a","b","c","d","e","f","g","h","i","j","k","l","m",
          "n","o","p","q","r","s","t","u","v","w","x","y","z"}
Upper == {"A","B","C","D","E","F","G","H","I","J","K","L","M",
          "N","O","P","Q","R","S","T","U","V","W","X","Y","Z"}
Digit == {"0","1","2","3","4","5","6","7","8","9"}

\* regex classes of email_pattern (app.py:220)
LocalClass  == Lower \cup Upper \cup Digit \cup {".", "_", "%", "+", "-"}
DomainClass == Lower \cup Upper \cup Digit \cup {".", "-"}
TldClass    == Lower \cup Upper \cup {"|"}
\* \w of Python's re for these characters
WordClass   == Lower \cup Upper \cup Digit \cup {"_"}

IsWordAt(t, k) == k \in 1..Len(t) /\ t[k] \in WordClass

\* \b between position k-1 and position k (1-based; k = Len(t)+1 is the end)
WordBoundary(t, k) == IsWordAt(t, k - 1) # IsWordAt(t, k)

AllIn(t, lo, hi, class) == \A k \in lo..hi : t[k] \in class

\* the local part t[i..a-1] before the "@" at position a
LocalOk(t, i, a) ==
    /\ 1 <= i /\ i < a
    /\ WordBoundary(t, i)
    /\ AllIn(t, i, a - 1, LocalClass)

\* the domain t[a+1..d-1], the dot at position d, and the top-level part
\* t[d+1..e] of at least two characters, ending at a word boundary
TailOk(t, a, d, e) ==
    /\ a + 1 < d /\ d + 2 <= e /\ e <= Len(t)
    /\ AllIn(t, a + 1, d - 1, DomainClass)
    /\ AllIn(t, d + 1, e, TldClass)
    /\ WordBoundary(t, e + 1)

Min(a, b) == IF a <= b THEN a ELSE b

MaxOf(S) == CHOOSE x \in S : \A y \in S : y <= x
MinOf(S) == CHOOSE x \in S : \A y \in S : x <= y

NoEmail == << >>

\* re.findall(email_pattern, text)[0], or None: the leftmost start, then the
\* greedy domain (the latest dot that still matches), then the greedy end
FirstMatch(t) ==
    LET P    == 1..Len(t)
        Ats  == {a \in P : t[a] = "@"}
        Dots == {d \in P : t[d] = "."}
        Ends(a, d) == {e \in P : TailOk(t, a, d, e)}
        Tails(a)   == {d \in Dots : Ends(a, d) # {}}
        Starts == {i \in P : \E a \in Ats : LocalOk(t, i, a) /\ Tails(a) # {}}
    IN  IF Starts = {} THEN NoEmail
        ELSE LET i == MinOf(Starts)
                 a == CHOOSE a \in Ats : LocalOk(t, i, a) /\ Tails(a) # {}
                 d == MaxOf(Tails(a))
                 e == MaxOf(Ends(a, d))
             IN  SubSeq(t, i, e)

\* the messages of the chat requests
MsgHi       == <<"h","i">>
MsgEmailA   == <<"a","@","b",".","c","o">>
MsgEmailC   == <<"m","e"," ","c","@","d",".","i","o",","," ","a","@","b",".","c","o">>
MsgNearMiss == <<"a","@","b",".","c">>

ChatMessages == {MsgHi, MsgEmailA, MsgEmailC}

\* their matches, computed once
Matches == [t \in ChatMessages |-> FirstMatch(t)]

\* extract_email (app.py:210-222): the first match of the pattern in the
\* text, looked up for the messages above and computed for any other text
extract_email(t) == IF t \in ChatMessages THEN Matches[t] ELSE FirstMatch(t)

\* message.split('@')[0] if '@' in message else "Unknown" (app.py:319)
Unknown == <<"U","n","k","n","o","w","n">>

LeadName(t) ==
    LET Ats == {k \in 1..Len(t) : t[k] = "@"}
    IN  IF Ats = {} THEN Unknown ELSE SubSeq(t, 1, MinOf(Ats) - 1)

(***************************************************************************)
(* The chunker (ingestion.py:135-185).                                     *)
(***************************************************************************)
\* characters str.strip() removes
Whitespace == {" ", "\n", "\t", "\r"}

\* s.strip()
Strip(t) ==
    LET Keep == {k \in 1..Len(t) : t[k] \notin Whitespace}
    IN  IF Keep = {} THEN << >> ELSE SubSeq(t, MinOf(Keep), MaxOf(Keep))

\* the first index at which sep occurs in t, 0 when it does not
Find(t, sep) ==
    LET Hits == {k \in 1..(Len(t) - Len(sep) + 1) : SubSeq(t, k, k + Len(sep) - 1) = sep}
    IN  IF Hits = {} THEN 0 ELSE MinOf(Hits)

\* text.split(separator) for a non-empty separator
RECURSIVE Split(_, _)
Split(t, sep) ==
    LET k == Find(t, sep)
    IN  IF k = 0 THEN <<t>>
        ELSE <<SubSeq(t, 1, k - 1)>> \o Split(SubSeq(t, k + Len(sep), Len(t)), sep)

\* separators (ingestion.py:140)
Separators == << <<"\n", "\n">>, <<"\n">>, <<".", " ">>, <<" ">>, << >> >>

\* next_piece (ingestion.py:159)
NextPiece(split, separator) ==
    IF separator \in {<<"\n", "\n">>, <<"\n">>} THEN split ELSE split \o separator

\* the loop of ingestion.py:156-169 from piece k on: the chunks completed,
\* given the running buffer current_chunk
RECURSIVE Accumulate(_, _, _, _, _)
Accumulate(splits, k, separator, current_chunk, chunk_size) ==
    IF k > Len(splits)
    THEN IF current_chunk # << >> THEN <<Strip(current_chunk)>> ELSE << >>
    ELSE LET next_piece == NextPiece(splits[k], separator)
         IN  IF Len(current_chunk) + Len(next_piece) > chunk_size
             THEN (IF current_chunk # << >> THEN <<Strip(current_chunk)>> ELSE << >>)
                  \o Accumulate(splits, k + 1, separator, next_piece, chunk_size)
             ELSE Accumulate(splits, k + 1, separator, current_chunk \o next_piece,
                             chunk_size)

\* [text[i:i+chunk_size] for i in range(0, len(text), chunk_size - overlap)]
\* (ingestion.py:150), for a positive step
ForceSplit(t, chunk_size, overlap) ==
    LET step == chunk_size - overlap
        n    == (Len(t) + step - 1) \div step
    IN  [j \in 1..n |-> SubSeq(t, (j - 1) * step + 1, Min((j - 1) * step + chunk_size, Len(t)))]

\* validated_chunks.extend(...) over the parts from k on
RECURSIVE Flatten(_, _)
Flatten(parts, k) ==
    IF k > Len(parts) THEN << >> ELSE parts[k].chunks \o Flatten(parts, k + 1)

\* the result of a call that raised
Raised == [raised |-> TRUE, chunks |-> << >>]

Returned(chunks) == [raised |-> FALSE, chunks |-> chunks]

\* a completed chunk that is accepted whatever its length
TooBigNever(chunk, chunk_size) == FALSE

\* the test that sends a completed chunk to the next separator
\* (ingestion.py:176)
TooBig(chunk, chunk_size) == Len(chunk) > chunk_size

\* split_text(text, separators[level:]) (ingestion.py:142-182); range() raises
\* on a zero step and is empty on a negative one, str.split raises on the
\* empty separator
RECURSIVE split_text(_, _, _, _)
split_text(t, level, chunk_size, overlap) ==
    IF Len(t) <= chunk_size THEN Returned(<<t>>)
    ELSE IF level > Len(Separators)
    THEN IF chunk_size = overlap THEN Raised
         ELSE IF chunk_size < overlap THEN Returned(<< >>)
         ELSE Returned(ForceSplit(t, chunk_size, overlap))
    ELSE IF Separators[level] = << >> THEN Raised
    ELSE LET separator    == Separators[level]
             final_chunks == Accumulate(Split(t, separator), 1, separator, << >>, chunk_size)
             parts == [k \in 1..Len(final_chunks) |->
                          IF TooBig(final_chunks[k], chunk_size)
                          THEN split_text(final_chunks[k], level + 1, chunk_size, overlap)
                          ELSE Returned(<<final_chunks[k]>>)]
         IN  IF \E k \in 1..Len(parts) : parts[k].raised THEN Raised
             ELSE Returned(Flatten(parts, 1))

\* recursive_chunk_text(text, chunk_size, overlap) (ingestion.py:135-185)
recursive_chunk_text(t, chunk_size, overlap) == split_text(t, 1, chunk_size, overlap)

(***************************************************************************)
(* Inputs of the chat endpoint.                                            *)
(***************************************************************************)
Absent == "<absent>"

\* json_data.get(key, default)
JsonGet(v, default) == IF v = Absent THEN default ELSE v

SorryText == <<"S","o","r","r","y",","," ","I"," ","c","a","n","n","o","t"," ","g","e","n","e","r","a","t","e"," ","a"," ","r","e","s","p","o","n","s","e",".">>
ReplyText == <<"o","k">>
Fragment  == <<"k">>

\* the note of an auto-created lead (app.py:322)
AutoNote(session_id) == <<"Auto-created from chat session, Session ID: ", session_id>>

(***************************************************************************)
(* State.                                                                  *)
(***************************************************************************)
VARIABLES
    vector_store,    \* app.py:44  TRUE when initialised, FALSE when None
    data_ingestion,  \* app.py:45
    openai_client,   \* app.py:46
    sessions,        \* table sessions: session_id -> row
    messages,        \* table messages, in id order
    leads,           \* table leads, in id order
    index,           \* the Pinecone index: id -> vector record
    ingest,          \* the last response of the ingestion endpoint
    req,             \* the locals of each chat request
    chunking         \* a call of recursive_chunk_text: arguments and result

vars == <<vector_store, data_ingestion, openai_client,
          sessions, messages, leads, index, ingest, req, chunking>>

services == <<vector_store, data_ingestion, openai_client>>

NoResponse == [status |-> 0, success |-> FALSE, message |-> "", turn_count |-> 0,
               email_provided |-> FALSE, response |-> << >>]
NoFilter   == [field |-> "", eq |-> ""]
NoQuery    == [issued |-> FALSE, top_k |-> 0, filter |-> NoFilter, sparse |-> "none",
               raised |-> FALSE]
NoPayload  == [solicit |-> FALSE, context |-> {}, history |-> << >>]
\* nothing written on the request's connection and not yet committed
NoWrites   == [leads |-> << >>, email_provided |-> FALSE]

ReqInit == [pc |-> "idle", message |-> << >>, session_id |-> "", client_id |-> "",
            stream |-> FALSE,
            session_data |-> [turn_count |-> 0, email_provided |-> FALSE],
            new_turn_count |-> 0, email_captured |-> FALSE, uncommitted |-> NoWrites,
            embeddings |-> << >>, query_args |-> NoQuery, context_results |-> {},
            messages_payload |-> NoPayload,
            assistant_response |-> << >>, events |-> << >>,
            response |-> NoResponse]

\* recursive_chunk_text not called yet
NoCall ==
    [pc |-> "idle", text |-> << >>, chunk_size |-> 0, overlap |-> 0,
     result |-> Returned(<< >>)]

\* the failure results of ingest_url (ingestion.py:236-249, 276-282)
IngestFailure(message, url) ==
    [success |-> FALSE, message |-> message, url |-> url, chunks |-> 0, stored |-> 0]

\* no ingestion request served yet. Beside the response, the record keeps
\* what the request did that the response does not say: the client_id it
\* resolved, the fetch strategies it tried, and how many of the ids it wrote
\* the index already held.
NoIngest ==
    [status |-> 0, success |-> FALSE, message |-> "", url |-> "", client_id |-> "",
     attempts |-> << >>, replaced |-> 0, data |-> IngestFailure("", "")]


\* initialize_services (app.py:137-197): the completion client and the
\* store/ingestion pair are each set or left None
Init ==
    /\ openai_client \in BOOLEAN
    /\ vector_store \in BOOLEAN
    /\ data_ingestion = vector_store
    /\ sessions = << >>
    /\ messages = << >>
    /\ leads = << >>
    /\ index = << >>
    /\ ingest = NoIngest
    /\ req = [p \in Requests |-> ReqInit]
    /\ chunking = NoCall

\* create_response (app.py:111-134)
create_response(success, message, status_code) ==
    [NoResponse EXCEPT !.success = success, !.message = message, !.status = status_code]

Reply(p, r) == req' = [req EXCEPT ![p] = r]

\* the handler returns: its locals are gone, the request and what was sent
\* back remain
Return(r, response) ==
    [ReqInit EXCEPT !.pc = "done", !.message = r.message, !.session_id = r.session_id,
                    !.client_id = r.client_id, !.stream = r.stream,
                    !.events = r.events, !.response = response]


(***************************************************************************)
(* The persistence layer (SQLite). A write and its commit are one step:    *)
(* the writer holds the database lock from the statement to the commit.    *)
(***************************************************************************)
\* SELECT * FROM sessions WHERE session_id = ? (app.py:283-284)
HasSession(session_id) == session_id \in DOMAIN sessions

\* a session created with its first turn already counted
NewSessionRowCounted(client_id) ==
    [client_id |-> client_id, email_provided |-> FALSE, turn_count |-> 1]

\* the row of INSERT INTO sessions (app.py:287-290)
NewSessionRow(client_id) ==
    [client_id |-> client_id, email_provided |-> FALSE, turn_count |-> 0]

\* mutant: the insert replaces an existing row (INSERT OR REPLACE)
InsertSessionReplaces(session_id) == FALSE

\* session_id is the PRIMARY KEY (app.py:79): a second insert raises
InsertSessionRaises(session_id) == HasSession(session_id)

InsertSession(session_id, client_id) ==
    [s \in DOMAIN sessions \cup {session_id} |->
        IF s = session_id THEN NewSessionRow(client_id) ELSE sessions[s]]

\* the rows an UPDATE ... WHERE session_id = ? touches: none when there is no row
UpdateSession(session_id, field, value) ==
    [s \in DOMAIN sessions |->
        IF s = session_id
        THEN IF field = "turn_count"
             THEN [sessions[s] EXCEPT !.turn_count = value]
             ELSE [sessions[s] EXCEPT !.email_provided = value]
        ELSE sessions[s]]

\* a table that keeps one row per session and role: the insert puts the new
\* row in the place of the earlier one
InsertMessageUpserts(session_id, role, content) ==
    Append(SelectSeq(messages, LAMBDA m : ~(m.session_id = session_id /\ m.role = role)),
           [session_id |-> session_id, role |-> role, content |-> content])

\* INSERT INTO messages (session_id, role, content) (app.py:305, 422, 456)
InsertMessage(session_id, role, content) ==
    Append(messages, [session_id |-> session_id, role |-> role, content |-> content])

\* mutant: the lead carries the raw message instead of the extracted address
LeadRowRawMessage(message, email, session_id) ==
    [name |-> LeadName(message), email |-> message, status |-> "new",
     notes |-> AutoNote(session_id)]

\* the row of INSERT INTO leads (app.py:315-323)
LeadRow(message, email, session_id) ==
    [name |-> LeadName(message), email |-> email, status |-> "new",
     notes |-> AutoNote(session_id)]

(***************************************************************************)
(* POST /api/chat (app.py:246-487), one action per step of the handler.    *)
(***************************************************************************)
\* a handler that looks the session up, and creates it, before it checks
\* the message
ChatLookupCreatesFirst(p, has_json, in_message, in_session_id, in_client_id, in_stream) ==
    LET message    == in_message
        session_id == JsonGet(in_session_id, "default_session")
        client_id  == JsonGet(in_client_id, "demo_client")
        r0 == [req[p] EXCEPT !.message = message, !.session_id = session_id,
                             !.client_id = client_id, !.stream = in_stream]
    IN  /\ req[p].pc = "idle"
        /\ IF ~has_json
           THEN /\ Reply(p, [req[p] EXCEPT !.pc = "done", !.response =
                      create_response(FALSE, "Request body must contain JSON data", 400)])
                /\ UNCHANGED sessions
           ELSE IF message = << >>
           THEN /\ Reply(p, [req[p] EXCEPT !.pc = "done", !.response =
                      create_response(FALSE, "Message content cannot be empty", 400)])
                /\ sessions' = IF HasSession(session_id) THEN sessions
                               ELSE InsertSession(session_id, client_id)
           ELSE IF ~vector_store \/ ~data_ingestion \/ ~openai_client
           THEN /\ Reply(p, [req[p] EXCEPT !.pc = "done", !.response =
                      create_response(FALSE, "Services not initialized", 500)])
                /\ UNCHANGED sessions
           ELSE IF ~HasSession(session_id)
           THEN /\ Reply(p, [r0 EXCEPT !.pc = "insert_session"])
                /\ UNCHANGED sessions
           ELSE /\ Reply(p, [r0 EXCEPT !.pc = "update_turn",
                      !.session_data = [turn_count |-> sessions[session_id].turn_count,
                                        email_provided |-> sessions[session_id].email_provided]])
                /\ UNCHANGED sessions
        /\ UNCHANGED <<services, chunking, messages, leads, index, ingest>>

\* app.py:252-297: validation, then the session lookup
ChatLookup(p, has_json, in_message, in_session_id, in_client_id, in_stream) ==
    LET message    == in_message
        session_id == JsonGet(in_session_id, "default_session")
        client_id  == JsonGet(in_client_id, "demo_client")
        r0 == [req[p] EXCEPT !.message = message, !.session_id = session_id,
                             !.client_id = client_id, !.stream = in_stream]
    IN  /\ req[p].pc = "idle"
        /\ IF ~has_json
           THEN Reply(p, [req[p] EXCEPT !.pc = "done", !.response =
                    create_response(FALSE, "Request body must contain JSON data", 400)])
           ELSE IF message = << >>
           THEN Reply(p, [req[p] EXCEPT !.pc = "done", !.response =
                    create_response(FALSE, "Message content cannot be empty", 400)])
           ELSE IF ~vector_store \/ ~data_ingestion \/ ~openai_client
           THEN Reply(p, [req[p] EXCEPT !.pc = "done", !.response =
                    create_response(FALSE, "Services not initialized", 500)])
           ELSE IF ~HasSession(session_id)
           THEN Reply(p, [r0 EXCEPT !.pc = "insert_session"])
           ELSE Reply(p, [r0 EXCEPT !.pc = "update_turn",
                    !.session_data = [turn_count |-> sessions[session_id].turn_count,
                                      email_provided |-> sessions[session_id].email_provided]])
        /\ UNCHANGED <<services, chunking, sessions, messages, leads, index, ingest>>

\* app.py:286-292: no row was found, insert one; a primary-key violation is
\* caught by the handler's outer except (app.py:481-487)
ChatCreateSession(p) ==
    /\ req[p].pc = "insert_session"
    /\ IF InsertSessionRaises(req[p].session_id)
       THEN /\ Reply(p, Return(req[p],
                    create_response(FALSE, "Internal server error", 500)))
            /\ UNCHANGED sessions
       ELSE /\ sessions' = InsertSession(req[p].session_id, req[p].client_id)
            /\ Reply(p, [req[p] EXCEPT !.pc = "update_turn",
                    !.session_data = [turn_count |-> 0, email_provided |-> FALSE]])
    /\ UNCHANGED <<services, chunking, messages, leads, index, ingest>>

\* mutant: the first turn is counted, later ones are not
NewTurnCountOnce(session_data) ==
    IF session_data.turn_count = 0 THEN 1 ELSE session_data.turn_count

\* app.py:300
NewTurnCount(session_data) == session_data.turn_count + 1

\* a handler whose turn update also records the request's client_id
ChatUpdateTurnRebinds(p) ==
    /\ req[p].pc = "update_turn"
    /\ LET n == NewTurnCount(req[p].session_data)
       IN  /\ sessions' = [UpdateSession(req[p].session_id, "turn_count", n)
                              EXCEPT ![req[p].session_id].client_id = req[p].client_id]
           /\ Reply(p, [req[p] EXCEPT !.pc = "store_user", !.new_turn_count = n])
    /\ UNCHANGED <<services, chunking, messages, leads, index, ingest>>

\* app.py:299-302
ChatUpdateTurn(p) ==
    /\ req[p].pc = "update_turn"
    /\ LET n == NewTurnCount(req[p].session_data)
       IN  /\ sessions' = UpdateSession(req[p].session_id, "turn_count", n)
           /\ Reply(p, [req[p] EXCEPT !.pc = "store_user", !.new_turn_count = n])
    /\ UNCHANGED <<services, chunking, messages, leads, index, ingest>>

\* app.py:304-307
ChatStoreUser(p) ==
    /\ req[p].pc = "store_user"
    /\ messages' = InsertMessage(req[p].session_id, "user", req[p].message)
    /\ Reply(p, [req[p] EXCEPT !.pc = "lead"])
    /\ UNCHANGED <<services, chunking, sessions, leads, index, ingest>>

\* mutant: every message with an email creates a lead
ShouldCreateLeadAlways(email, session_data) == email # NoEmail

\* app.py:312
ShouldCreateLead(email, session_data) ==
    email # NoEmail /\ ~session_data.email_provided

\* mutant: the handler's copy of the flag is not refreshed after the capture
CapturedStale(r) == [r EXCEPT !.email_captured = TRUE]

\* app.py:326-327
Captured(r) == [r EXCEPT !.session_data.email_provided = TRUE, !.email_captured = TRUE]

\* what the try block of app.py:314-327 leaves in the connection's open
\* transaction when it raises: nothing when the INSERT raised, the lead row
\* when the UPDATE raised, the row and the flag when the commit raised. The
\* except clause (app.py:328-329) does not roll back.
LeftOpen(raised_at, row) ==
    [leads |-> IF raised_at = "insert" THEN << >> ELSE <<row>>,
     email_provided |-> raised_at = "commit"]

\* app.py:309-329. lead_outcome: the try block ran through ("ok"), or the
\* INSERT, the UPDATE or the commit raised; the exception is printed and
\* the handler goes on.
ChatLead(p, lead_outcome) ==
    /\ req[p].pc = "lead"
    /\ LET email == extract_email(req[p].message)
           row   == LeadRow(req[p].message, email, req[p].session_id)
       IN  IF ~ShouldCreateLead(email, req[p].session_data)
           THEN /\ Reply(p, [req[p] EXCEPT !.pc = "retrieve"])
                /\ UNCHANGED <<sessions, leads>>
           ELSE IF lead_outcome = "ok"
           THEN /\ leads' = Append(leads, row)
                /\ sessions' = UpdateSession(req[p].session_id, "email_provided", TRUE)
                /\ Reply(p, [Captured(req[p]) EXCEPT !.pc = "retrieve"])
           ELSE /\ Reply(p, [req[p] EXCEPT !.pc = "retrieve",
                                           !.uncommitted = LeftOpen(lead_outcome, row)])
                /\ UNCHANGED <<sessions, leads>>
    /\ UNCHANGED <<services, chunking, messages, index, ingest>>


(***************************************************************************)
(* The hybrid store (vector_store.py). The index is the external service;  *)
(* a query with a metadata filter returns only the vectors whose metadata  *)
(* satisfies it.                                                           *)
(***************************************************************************)
\* top_k of the chat retrieval (app.py:348)
TopK == 5

\* a query that carries no metadata filter
QueryArgsUnfiltered(top_k, client_id, sparse_vector) ==
    [issued |-> TRUE, top_k |-> top_k, filter |-> NoFilter, sparse |-> sparse_vector,
     raised |-> FALSE]

\* query_args of VectorStore.search (vector_store.py:129-137): the filter
\* always, the sparse vector when it is truthy ("none" stands for None).
\* raised is set when index.query raises, which the caller cannot tell from
\* an empty result.
QueryArgs(top_k, client_id, sparse_vector) ==
    [issued |-> TRUE, top_k |-> top_k,
     filter |-> [field |-> "client_id", eq |-> client_id],
     sparse |-> sparse_vector, raised |-> FALSE]

\* the ids self.index.query may rank: those passing the server-side filter
Matching(args) ==
    {id \in DOMAIN index :
        args.filter = NoFilter
        \/ ( /\ args.filter.field \in DOMAIN index[id].metadata
             /\ index[id].metadata[args.filter.field] = args.filter.eq )}

\* the possible results.matches: any top_k of the matching vectors
QueryResults(args) ==
    {R \in SUBSET Matching(args) :
        Cardinality(R) = Min(args.top_k, Cardinality(Matching(args)))}

\* the list VectorStore.search returns (vector_store.py:141-148)
SearchResult(R) == {[id |-> id, metadata |-> index[id].metadata] : id \in R}

\* context_text (app.py:353-356)
NoContext == <<"No relevant context available">>

\* a context block without the placeholder
ContextTextBare(results) ==
    {<<"- [Source: ", r.metadata.url, "] ", r.metadata.text>> : r \in results}

ContextText(results) ==
    IF results = {} THEN {NoContext}
    ELSE {<<"- [Source: ", r.metadata.url, "] ", r.metadata.text>> : r \in results}

\* what get_embeddings returns for the message (ingestion.py:187-206): the
\* list with its vector, or the empty list of its except branch
Embeddings(embedded) == IF embedded THEN <<"dense">> ELSE << >>

\* a handler that goes on to the store query whatever get_embeddings gave
ChatRetrieveUnchecked(p, embedded, sparse_vector, query_ok) ==
    /\ req[p].pc = "retrieve"
    /\ LET args == QueryArgs(TopK, req[p].client_id, sparse_vector)
       IN  \E R \in QueryResults(args) :
              Reply(p, [req[p] EXCEPT !.pc = "history", !.query_args = args,
                                      !.embeddings = Embeddings(embedded),
                                      !.context_results = SearchResult(R)])
    /\ UNCHANGED <<services, chunking, sessions, messages, leads, index, ingest>>

\* app.py:331-356: the query embedding, then VectorStore.search
\* (vector_store.py:127-153). embedded: get_embeddings returned a vector;
\* sparse_vector: what get_sparse_vector_query returned, the BM25 encoding
\* or the empty encoding of its except branch (ingestion.py:222-226), both
\* of them truthy; query_ok: the index query did not raise. Without an
\* embedding the connection is closed and the handler returns
\* (app.py:335-341).
ChatRetrieve(p, embedded, sparse_vector, query_ok) ==
    /\ req[p].pc = "retrieve"
    /\ IF Embeddings(embedded) = << >>
       THEN Reply(p, Return(req[p],
                create_response(FALSE, "Unable to generate message embedding vector", 500)))
       ELSE LET args == QueryArgs(TopK, req[p].client_id, sparse_vector)
                r    == [req[p] EXCEPT !.embeddings = Embeddings(embedded)]
            IN  IF query_ok
                THEN \E R \in QueryResults(args) :
                        Reply(p, [r EXCEPT !.pc = "history", !.query_args = args,
                                           !.context_results = SearchResult(R)])
                ELSE Reply(p, [r EXCEPT !.pc = "history",
                                        !.query_args = [args EXCEPT !.raised = TRUE],
                                        !.context_results = {}])
    /\ UNCHANGED <<services, chunking, sessions, messages, leads, index, ingest>>

\* LIMIT of the history query (app.py:359)
HistoryLimit == 6

\* SELECT role, content FROM messages WHERE session_id = ?
\* ORDER BY id DESC LIMIT 6 (app.py:359-360)
HistoryRows(session_id) ==
    LET ids == {i \in 1..Len(messages) : messages[i].session_id = session_id}
        k   == Min(HistoryLimit, Cardinality(ids))
    IN  [j \in 1..k |->
            messages[CHOOSE i \in ids : Cardinality({m \in ids : m > i}) = j - 1]]

Reversed(seq) == [j \in 1..Len(seq) |-> seq[Len(seq) + 1 - j]]

\* a history handed over as the query returned it, newest row first
RecentHistoryNewestFirst(session_id) ==
    LET rows == HistoryRows(session_id)
    IN  [j \in 1..Len(rows) |-> [role |-> rows[j].role, content |-> rows[j].content]]

\* recent_history (app.py:362)
RecentHistory(session_id) ==
    LET rows == Reversed(HistoryRows(session_id))
    IN  [j \in 1..Len(rows) |-> [role |-> rows[j].role, content |-> rows[j].content]]

\* app.py:366-370: TRUE for the instruction that asks for the email
SolicitEmail(session_data) == ~session_data.email_provided

\* app.py:358-387: the history window and the prompt
ChatCompose(p) ==
    /\ req[p].pc = "history"
    /\ Reply(p, [req[p] EXCEPT !.pc = "complete",
            !.messages_payload = [solicit |-> SolicitEmail(req[p].session_data),
                                  context |-> ContextText(req[p].context_results),
                                  history |-> RecentHistory(req[p].session_id)]])
    /\ UNCHANGED <<services, chunking, sessions, messages, leads, index, ingest>>

\* the data of the success response and of the done event (app.py:463-468, 427)
ChatData(r) ==
    [NoResponse EXCEPT !.status = 200, !.success = TRUE,
        !.turn_count = r.new_turn_count,
        !.email_provided = r.session_data.email_provided \/ r.email_captured]

\* conn.commit() (app.py:458) commits whatever the connection's transaction
\* holds: the rows a failed lead creation left in it go in with the
\* assistant message
CommitLeads(r) == leads \o r.uncommitted.leads

CommitSessions(r) ==
    IF r.uncommitted.email_provided
    THEN UpdateSession(r.session_id, "email_provided", TRUE)
    ELSE sessions

\* a handler that, when the completion call raised, stores the apology as
\* the assistant message before it reports the error
ChatCompleteStoresApology(p, outcome) ==
    /\ req[p].pc = "complete"
    /\ ~req[p].stream
    /\ LET text == IF outcome = "text" THEN ReplyText ELSE SorryText
       IN  /\ messages' = InsertMessage(req[p].session_id, "assistant", text)
           /\ leads' = CommitLeads(req[p])
           /\ sessions' = CommitSessions(req[p])
           /\ IF outcome = "raise"
              THEN Reply(p, Return(req[p],
                       create_response(FALSE, "Error processing request", 500)))
              ELSE Reply(p, Return(req[p], [ChatData(req[p]) EXCEPT !.response = text]))
    /\ UNCHANGED <<services, chunking, index, ingest>>

\* app.py:444-479, stream not set. outcome: the completion call returned
\* text ("text"), returned no content ("none"), or raised ("raise"); when
\* it raised the connection is closed without a commit (app.py:471-479).
ChatComplete(p, outcome) ==
    /\ req[p].pc = "complete"
    /\ ~req[p].stream
    /\ IF outcome = "raise"
       THEN /\ Reply(p, Return(req[p],
                    create_response(FALSE, "Error processing request", 500)))
            /\ UNCHANGED <<messages, sessions, leads>>
       ELSE LET text == IF outcome = "text" THEN ReplyText ELSE SorryText
            IN  /\ messages' = InsertMessage(req[p].session_id, "assistant", text)
                /\ leads' = CommitLeads(req[p])
                /\ sessions' = CommitSessions(req[p])
                /\ Reply(p, Return(req[p], [ChatData(req[p]) EXCEPT !.response = text]))
    /\ UNCHANGED <<services, chunking, index, ingest>>


(***************************************************************************)
(* POST /api/ingest (app.py:566-611) and the pipeline                      *)
(* DataIngestion.ingest_url (ingestion.py:228-282). The pipeline touches   *)
(* shared state in one call, the upsert, so a request is one step.         *)
(***************************************************************************)
\* one attempt of a fetch strategy and whether it gave markup
Attempt(strategy, ok) == [strategy |-> strategy, ok |-> ok]

\* a fetch that reports markup whatever the strategies did
fetch_url_unchecked(browser_ok, http_ok) ==
    [fetched |-> TRUE,
     attempts |-> IF browser_ok THEN <<Attempt("playwright", TRUE)>>
                  ELSE <<Attempt("playwright", FALSE), Attempt("requests", http_ok)>>]

\* a fetch that tries the browser again before it falls back
fetch_url_retries(browser_ok, http_ok) ==
    IF browser_ok THEN [fetched |-> TRUE, attempts |-> <<Attempt("playwright", TRUE)>>]
    ELSE [fetched |-> http_ok,
          attempts |-> <<Attempt("playwright", FALSE), Attempt("playwright", FALSE),
                         Attempt("requests", http_ok)>>]

\* DataIngestion.fetch_url (ingestion.py:74-102): the strategies tried, in
\* order, what each gave, and whether markup came back. The browser
\* strategy returns from inside its try (ingestion.py:91); the GET is
\* reached only through the except of ingestion.py:92.
fetch_url(browser_ok, http_ok) ==
    IF browser_ok THEN [fetched |-> TRUE, attempts |-> <<Attempt("playwright", TRUE)>>]
    ELSE [fetched |-> http_ok,
          attempts |-> <<Attempt("playwright", FALSE), Attempt("requests", http_ok)>>]

\* an id that numbers the vectors in the order they are written
ChunkIdFresh(url, i) == <<url, i + Cardinality(DOMAIN index)>>

\* the id of chunk i of a url, f"{url}_{i}" (ingestion.py:255)
ChunkId(url, i) == <<url, i>>

\* vectors_to_store (ingestion.py:251-264): zip stops at the shorter of the
\* chunks and the embeddings
VectorsToStore(url, client_id, chunks, n_embeddings) ==
    [k \in 1..Min(Len(chunks), n_embeddings) |->
        [id |-> ChunkId(url, k - 1),
         values |-> "dense",
         sparse_values |-> "bm25",
         metadata |-> [client_id |-> client_id, url |-> url,
                       chunk_index |-> k - 1, text |-> chunks[k]]]]

\* formatted_vectors of VectorStore.upsert (vector_store.py:83-100): a
\* metadata without client_id gets the caller's
FormattedVectors(vectors, client_id) ==
    [k \in 1..Len(vectors) |->
        IF "client_id" \in DOMAIN vectors[k].metadata
        THEN vectors[k]
        ELSE [vectors[k] EXCEPT !.metadata =
                 [f \in DOMAIN vectors[k].metadata \cup {"client_id"} |->
                     IF f = "client_id" THEN client_id ELSE vectors[k].metadata[f]]]]

\* self.index.upsert(vectors=...) (vector_store.py:102): a vector replaces
\* the one stored under its id
IndexUpsert(vectors) ==
    LET ids == {vectors[k].id : k \in 1..Len(vectors)}
    IN  [id \in DOMAIN index \cup ids |->
            IF id \in ids
            THEN LET k == CHOOSE k \in 1..Len(vectors) : vectors[k].id = id
                 IN  [values |-> vectors[k].values,
                      sparse_values |-> vectors[k].sparse_values,
                      metadata |-> vectors[k].metadata]
            ELSE index[id]]

\* VectorStore.upsert (vector_store.py:70-108): the count it returns and the
\* index it leaves
upsert(vectors, client_id, upsert_ok) ==
    IF upsert_ok
    THEN [count |-> Len(vectors), index |-> IndexUpsert(FormattedVectors(vectors, client_id)),
          replaced |-> Cardinality({k \in 1..Len(vectors) : vectors[k].id \in DOMAIN index})]
    ELSE [count |-> 0, index |-> index, replaced |-> 0]

\* DataIngestion.ingest_url (ingestion.py:228-282). fetched: fetch_url gave
\* markup; text: what extract_text made of it; n_embeddings: how many
\* vectors get_embeddings returned; upsert_ok: the index accepted the write.
ingest_url(url, client_id, fetched, text, n_embeddings, upsert_ok) ==
    IF ~fetched
    THEN [result |-> IngestFailure("Unable to fetch content", url), index |-> index,
          replaced |-> 0]
    ELSE IF text = << >>
    THEN [result |-> IngestFailure("Unable to extract text", url), index |-> index,
          replaced |-> 0]
    ELSE LET chunked == recursive_chunk_text(text, IngestChunkSize, IngestOverlap)
         IN  IF chunked.raised
             THEN [result |-> IngestFailure("Data ingestion failed", url), index |-> index,
                   replaced |-> 0]
             ELSE IF Min(n_embeddings, Len(chunked.chunks)) = 0
             THEN [result |-> IngestFailure("Unable to generate embeddings", url),
                   index |-> index, replaced |-> 0]
             ELSE LET vectors == VectorsToStore(url, client_id, chunked.chunks, n_embeddings)
                      stored  == upsert(vectors, client_id, upsert_ok)
                  IN  [result |-> [success |-> TRUE, message |-> "Data ingestion successful",
                                   url |-> url, chunks |-> Len(chunked.chunks),
                                   stored |-> stored.count],
                       index |-> stored.index, replaced |-> stored.replaced]

IngestResponse(status, success, message, url, client_id, attempts, replaced, data) ==
    [status |-> status, success |-> success, message |-> message, url |-> url,
     client_id |-> client_id, attempts |-> attempts, replaced |-> replaced, data |-> data]

\* ingest_data (app.py:566-611)
IngestData(has_json, in_url, in_client_id, browser_ok, http_ok, text, n_embeddings, upsert_ok) ==
    LET url       == JsonGet(in_url, "")
        client_id == JsonGet(in_client_id, "demo_client")
    IN  /\ IF ~has_json
           THEN /\ ingest' = [NoIngest EXCEPT !.status = 400,
                                 !.message = "Request body must contain JSON data"]
                /\ UNCHANGED index
           ELSE IF url = ""
           THEN /\ ingest' = [NoIngest EXCEPT !.status = 400,
                                 !.message = "URL cannot be empty"]
                /\ UNCHANGED index
           ELSE IF ~data_ingestion
           THEN /\ ingest' = [NoIngest EXCEPT !.status = 500,
                                 !.message = "Data ingestion service not initialized"]
                /\ UNCHANGED index
           ELSE LET fetch == fetch_url(browser_ok, http_ok)
                    done  == ingest_url(url, client_id, fetch.fetched, text,
                                        n_embeddings, upsert_ok)
                IN  /\ index' = done.index
                    /\ ingest' = IngestResponse(200, TRUE, "Data ingestion successful",
                                     url, client_id, fetch.attempts, done.replaced,
                                     done.result)
        /\ UNCHANGED <<services, chunking, sessions, messages, leads, req>>

(***************************************************************************)
(* stream set: the response is the generator generate() (app.py:397-432),  *)
(* driven by the server; it is suspended at a yield between two steps.     *)
(***************************************************************************)
Event(type, content, r) ==
    [type |-> type, content |-> content, session_id |-> r.session_id,
     turn_count |-> r.new_turn_count,
     email_provided |-> r.session_data.email_provided \/ r.email_captured]

ChunkEvent(content) ==
    [type |-> "chunk", content |-> content, session_id |-> "", turn_count |-> 0,
     email_provided |-> FALSE]

ErrorEvent ==
    [type |-> "error", content |-> << >>, session_id |-> "", turn_count |-> 0,
     email_provided |-> FALSE]

\* app.py:434-442: the main connection is closed, which drops what it had
\* not committed, and the streaming response is returned; the generator has
\* not started
ChatStreamResponse(p) ==
    /\ req[p].pc = "complete"
    /\ req[p].stream
    /\ Reply(p, [req[p] EXCEPT !.pc = "gen_start", !.uncommitted = NoWrites,
            !.response = [NoResponse EXCEPT !.status = 200, !.success = TRUE,
                                            !.message = "text/event-stream"]])
    /\ UNCHANGED <<services, chunking, sessions, messages, leads, index, ingest>>

\* a generator that goes on after its done or error event
TerminalResumes(r, event) == [r EXCEPT !.events = Append(@, event)]

\* the generator yields its done event (app.py:427) or its error event
\* (app.py:432) and, resumed, runs off its end
Terminal(r, event) == Return([r EXCEPT !.events = Append(@, event)], r.response)

\* the generator runs to its next yield. next: the completion stream gives
\* a content fragment ("chunk"), is exhausted ("end"), or the call or the
\* iteration raises ("raise").
StreamResume(p, next) ==
    /\ req[p].pc \in {"gen_start", "gen_chunk"}
    /\ \/ /\ next = "chunk"
          /\ Len(req[p].events) < MaxFragments
          /\ Reply(p, [req[p] EXCEPT !.pc = "gen_chunk",
                  !.assistant_response = @ \o Fragment,
                  !.events = Append(@, ChunkEvent(Fragment))])
          /\ UNCHANGED messages
       \/ /\ next = "end"
          /\ messages' = InsertMessage(req[p].session_id, "assistant",
                                       req[p].assistant_response)
          /\ Reply(p, Terminal(req[p], Event("done", << >>, req[p])))
       \/ /\ next = "raise"
          /\ Reply(p, Terminal(req[p], ErrorEvent))
          /\ UNCHANGED messages
    /\ UNCHANGED <<services, chunking, sessions, leads, index, ingest>>

\* a cancellation that stores what was produced so far
StreamCancelCommits(p) ==
    /\ req[p].pc \in {"gen_start", "gen_chunk"}
    /\ messages' = InsertMessage(req[p].session_id, "assistant", req[p].assistant_response)
    /\ Reply(p, [Return(req[p], req[p].response) EXCEPT !.pc = "cancelled"])
    /\ UNCHANGED <<services, chunking, sessions, leads, index, ingest>>

\* the consumer goes away: the server closes the suspended generator, and
\* GeneratorExit is not an Exception, so no handler of generate() runs
StreamCancel(p) ==
    /\ req[p].pc \in {"gen_start", "gen_chunk"}
    /\ Reply(p, [Return(req[p], req[p].response) EXCEPT !.pc = "cancelled"])
    /\ UNCHANGED <<services, chunking, sessions, messages, leads, index, ingest>>

(***************************************************************************)
(* Specifications.                                                         *)
(***************************************************************************)
SessionIds == {"s1", Absent}

Finished(p) == req[p].pc \in {"idle", "done", "cancelled"}

\* a chat request arrives: a body without JSON, without a message, or with
\* a message from msgs, a session_id from sids and a client_id from cids
ChatArrives(p, msgs, sids, cids, streams) ==
    \/ ChatLookup(p, FALSE, << >>, Absent, Absent, FALSE)
    \/ \E m \in msgs \cup {<< >>}, s \in sids, c \in cids, st \in streams :
            ChatLookup(p, TRUE, m, s, c, st)

\* the steps of an accepted request; lead_outcomes: how the lead creation
\* may go; query_oks: whether the index query may raise; outcomes: what the
\* completion call may do
ChatStep(p, lead_outcomes, sparse_vectors, query_oks, outcomes) ==
    \/ ChatCreateSession(p)
    \/ ChatUpdateTurn(p)
    \/ ChatStoreUser(p)
    \/ \E lead_outcome \in lead_outcomes : ChatLead(p, lead_outcome)
    \/ \E embedded \in BOOLEAN, sparse_vector \in sparse_vectors, query_ok \in query_oks :
            ChatRetrieve(p, embedded, sparse_vector, query_ok)
    \/ ChatCompose(p)
    \/ \E outcome \in outcomes : ChatComplete(p, outcome)

StreamStep(p) ==
    \/ ChatStreamResponse(p)
    \/ \E next \in {"chunk", "end", "raise"} : StreamResume(p, next)
    \/ StreamCancel(p)

\* requests are numbered in the order they arrive
NextToArrive(p) == \A q \in Requests : q < p => req[q].pc # "idle"

\* the threaded server: NumThreads requests handled concurrently
Next ==
    \E p \in Threads :
        \/ /\ NextToArrive(p)
           /\ ChatArrives(p, {MsgHi, MsgEmailC}, SessionIds, {Absent}, {FALSE})
        \/ ChatStep(p, {"ok"}, {"bm25"}, {TRUE}, {"text", "raise"})

Spec == Init /\ [][Next]_vars

\* request p is the next of a sequence: the earlier ones have been answered
NextInTurn(p) ==
    \A q \in Requests : IF q < p THEN req[q].pc \in {"done", "cancelled"}
                                 ELSE req[q].pc = "idle"

\* NumRequests requests handled one after another
SeqNext ==
    \E p \in Requests :
        \/ /\ NextInTurn(p)
           /\ ChatArrives(p, {MsgHi, MsgEmailA, MsgEmailC}, SessionIds, {Absent}, {FALSE})
        \/ ChatStep(p, {"ok"}, {"bm25"}, {TRUE}, {"text", "none", "raise"})

SeqSpec == Init /\ [][SeqNext]_vars


\* what extract_text may make of a fetched page: one chunk, three chunks,
\* a run longer than a chunk that holds no separator, nothing
PageShort == <<"a","b">>
PageLong  == <<"a","b"," ","c","d"," ","e","f">>
PageRun   == <<"a","b","c","d","e","f">>
PageEmpty == << >>

Urls == {"u1", "u2"}

IngestClientIds == {"A", "B", "", Absent}

\* vectors the embedding service returns for one ingestion, at most
MaxChunks == 3

\* an ingestion request arrives and is served
IngestArrives(urls, client_ids, fetches, texts, embeddings, upserts) ==
    \/ IngestData(FALSE, Absent, Absent, TRUE, TRUE, << >>, 0, TRUE)
    \/ \E url \in urls, c \in client_ids, browser_ok \in fetches, http_ok \in fetches,
          text \in texts, n \in embeddings, upsert_ok \in upserts :
            IngestData(TRUE, url, c, browser_ok, http_ok, text, n, upsert_ok)

\* ingestions by several tenants, and one chat request (request 1) that
\* queries the store between them
StoreNext ==
    \/ IngestArrives(Urls, IngestClientIds, {TRUE}, {PageLong},
                     {MaxChunks}, {TRUE})
    \/ /\ NextToArrive(1)
       /\ ChatArrives(1, {MsgHi}, {Absent}, {"A", "B"}, {FALSE})
    \/ ChatStep(1, {"ok"}, {"bm25", "empty"}, BOOLEAN, {"text"})

StoreSpec == Init /\ [][StoreNext]_vars

\* requests one after another on one session, streamed or not; a streamed
\* one is over when its generator finished or its consumer went away
StreamNext ==
    \E p \in Requests :
        \/ /\ NextInTurn(p)
           /\ ChatArrives(p, {MsgHi}, {"s1"}, {Absent}, BOOLEAN)
        \/ ChatStep(p, {"ok"}, {"bm25"}, {TRUE}, {"text"})
        \/ StreamStep(p)

StreamSpec == Init /\ [][StreamNext]_vars

(***************************************************************************)
(* One call of DataIngestion.recursive_chunk_text (ingestion.py:135-185).  *)
(***************************************************************************)
\* the chunker is a method of the ingestion service, which must exist
ChunkCall(text, chunk_size, overlap) ==
    /\ data_ingestion
    /\ chunking.pc = "idle"
    /\ chunking' = [NoCall EXCEPT !.pc = "called", !.text = text,
                                  !.chunk_size = chunk_size, !.overlap = overlap]
    /\ UNCHANGED <<services, sessions, messages, leads, index, ingest, req>>

\* the call returns its list, or raises
ChunkReturn ==
    /\ chunking.pc = "called"
    /\ chunking' = [chunking EXCEPT !.pc = "returned",
                        !.result = recursive_chunk_text(chunking.text, chunking.chunk_size,
                                                        chunking.overlap)]
    /\ UNCHANGED <<services, sessions, messages, leads, index, ingest, req>>

\* the characters of the texts: a letter, and the characters of the
\* separators
Alphabet == {"a", " ", ".", "\n"}

Texts == UNION {[1..n -> Alphabet] : n \in 0..MaxTextLen}

\* every text up to MaxTextLen and every chunk_size from 1 to MaxChunkSize
ChunkNext ==
    \/ \E text \in Texts, chunk_size \in 1..MaxChunkSize, overlap \in {1} :
            ChunkCall(text, chunk_size, overlap)
    \/ ChunkReturn

ChunkSpec == Init /\ [][ChunkNext]_vars

\* how the lead creation of app.py:314-327 may go
LeadOutcomes == {"ok", "insert", "update", "commit"}

\* the turns of one session, one after another, streamed or not, each
\* message carrying an email address, with every way the lead creation,
\* the query embedding and the completion call can fail
TurnNext ==
    \E p \in Requests :
        \/ /\ NextInTurn(p)
           /\ ChatArrives(p, {MsgEmailA}, {"s1"}, {Absent}, BOOLEAN)
        \/ ChatStep(p, LeadOutcomes, {"bm25"}, {TRUE}, {"text", "raise"})
        \/ ChatStreamResponse(p)
        \/ \E next \in {"chunk", "end", "raise"} : StreamResume(p, next)

TurnSpec == Init /\ [][TurnNext]_vars

\* turns of session "s1" that an earlier run of the server completed, at most
PriorTurns == 2

\* the rows k completed turns of a session leave in the messages table
StoredTurns(session_id, k) ==
    [j \in 1..(2 * k) |->
        IF j % 2 = 1
        THEN [session_id |-> session_id, role |-> "user", content |-> MsgHi]
        ELSE [session_id |-> session_id, role |-> "assistant", content |-> ReplyText]]

\* the server starts on the database file of an earlier run: init_db
\* creates the tables only if they do not exist (app.py:58-100), so the
\* session and the messages of the turns completed then are there
HistoryInit ==
    /\ openai_client \in BOOLEAN
    /\ vector_store \in BOOLEAN
    /\ data_ingestion = vector_store
    /\ \E k \in 0..PriorTurns :
          /\ sessions = IF k = 0 THEN << >>
                        ELSE [s \in {"s1"} |->
                                 [NewSessionRow("demo_client") EXCEPT !.turn_count = k]]
          /\ messages = StoredTurns("s1", k)
    /\ leads = << >>
    /\ index = << >>
    /\ ingest = NoIngest
    /\ req = [p \in Requests |-> ReqInit]
    /\ chunking = NoCall

\* requests one after another on two sessions, one of which has a stored
\* conversation
HistoryNext ==
    \E p \in Requests :
        \/ /\ NextInTurn(p)
           /\ ChatArrives(p, {MsgHi, MsgEmailA}, SessionIds, {Absent}, {FALSE})
        \/ ChatStep(p, {"ok"}, {"bm25"}, {TRUE}, {"text", "raise"})

HistorySpec == HistoryInit /\ [][HistoryNext]_vars

\* the client_id of a chat request: a tenant's, or none
ChatClientIds == {"A", "B", Absent}

\* requests one after another, on two sessions, by several tenants
SessionNext ==
    \E p \in Requests :
        \/ /\ NextInTurn(p)
           /\ ChatArrives(p, {MsgHi}, SessionIds, ChatClientIds, {FALSE})
        \/ ChatStep(p, {"ok"}, {"bm25"}, {TRUE}, {"text"})

SessionSpec == Init /\ [][SessionNext]_vars

\* the index as earlier ingestions left it: a page of tenant A and a page of
\* tenant B, one chunk each, stored as VectorStore.upsert stores them
TenantIndex ==
    LET vectors == VectorsToStore("u1", "A", <<PageShort>>, 1)
                   \o VectorsToStore("u2", "B", <<PageShort>>, 1)
    IN  [id \in {vectors[k].id : k \in 1..Len(vectors)} |->
            LET k == CHOOSE k \in 1..Len(vectors) : vectors[k].id = id
            IN  [values |-> vectors[k].values,
                 sparse_values |-> vectors[k].sparse_values,
                 metadata |-> vectors[k].metadata]]

\* the server starts with an empty database and an index, the external
\* service, that holds the vectors of two tenants
ScopeInit ==
    /\ openai_client \in BOOLEAN
    /\ vector_store \in BOOLEAN
    /\ data_ingestion = vector_store
    /\ sessions = << >>
    /\ messages = << >>
    /\ leads = << >>
    /\ index = TenantIndex
    /\ ingest = NoIngest
    /\ req = [p \in Requests |-> ReqInit]
    /\ chunking = NoCall

\* requests one after another, on two sessions, each by tenant A or B
ScopeNext ==
    \E p \in Requests :
        \/ /\ NextInTurn(p)
           /\ ChatArrives(p, {MsgHi}, SessionIds, {"A", "B"}, {FALSE})
        \/ ChatStep(p, {"ok"}, {"bm25"}, {TRUE}, {"text", "raise"})

ScopeSpec == ScopeInit /\ [][ScopeNext]_vars

\* ingestions alone, with every way a stage of the pipeline can fail
IngestNext ==
    IngestArrives({"u1", Absent}, {"A", Absent}, BOOLEAN,
                  {PageEmpty, PageShort, PageLong, PageRun}, 0..MaxChunks, BOOLEAN)

IngestSpec == Init /\ [][IngestNext]_vars

(***************************************************************************)
(* What the claims speak of.                                               *)
(***************************************************************************)
StoredSessionIds == {JsonGet(s, "default_session") : s \in SessionIds}

\* the request failed one of the checks of app.py:252-277
Rejected(p) ==
    /\ req[p].pc = "done"
    /\ req[p].response.message \in {"Request body must contain JSON data",
                                    "Message content cannot be empty",
                                    "Services not initialized"}

Accepted(p) == req[p].pc # "idle" /\ ~Rejected(p)

AcceptedOn(s) == {p \in Requests : Accepted(p) /\ req[p].session_id = s}

\* the accepted requests whose turn-count update has run
Counted(s) ==
    {p \in AcceptedOn(s) :
        /\ req[p].pc \notin {"insert_session", "update_turn"}
        /\ req[p].response.message # "Internal server error"}

StoredTurnCount(s) == IF HasSession(s) THEN sessions[s].turn_count ELSE 0

StoredEmailProvided(s) == HasSession(s) /\ sessions[s].email_provided

\* the turn_count a request reported, in its response or its done event
Reports(p, n) ==
    \/ /\ req[p].pc = "done"
       /\ req[p].response.success
       /\ ~req[p].stream
       /\ req[p].response.turn_count = n
    \/ \E k \in 1..Len(req[p].events) :
          req[p].events[k].type = "done" /\ req[p].events[k].turn_count = n

AutoLeads(s) == {k \in 1..Len(leads) : leads[k].notes = AutoNote(s)}

HasEmail(p) == extract_email(req[p].message) # NoEmail

AllAnswered == \A p \in Requests : Finished(p)

(***************************************************************************)
(* C1. Requests handled one after another: the stored turn_count of a      *)
(* session equals the number of accepted requests on it so far, so it      *)
(* rises by one with each and never falls, and the k-th accepted request   *)
(* reports k.                                                              *)
(***************************************************************************)
C1_TurnCountCountsAccepted ==
    /\ \A s \in StoredSessionIds : StoredTurnCount(s) = Cardinality(Counted(s))
    /\ \A s \in StoredSessionIds : \A p \in Counted(s) : \A n \in 0..NumRequests + 1 :
          Reports(p, n) => n = Cardinality({q \in Counted(s) : q <= p})

\* three accepted requests on one session, one of which failed after the
\* turn-count update
C1_Witness ==
    \E s \in StoredSessionIds :
        /\ AllAnswered
        /\ StoredTurnCount(s) = 3
        /\ \E p \in AcceptedOn(s) : ~req[p].response.success
        /\ \E p \in AcceptedOn(s) : Reports(p, 3)

(***************************************************************************)
(* C2. Concurrent requests: once all requests are answered the stored      *)
(* turn_count equals the number of accepted requests and no two requests   *)
(* of a session report the same turn_count. Stated for the runs in which   *)
(* every accepted request got as far as the turn-count update.             *)
(***************************************************************************)
C2_NoLostTurnUpdate ==
    (AllAnswered /\ \A s \in StoredSessionIds : Counted(s) = AcceptedOn(s)) =>
        /\ \A s \in StoredSessionIds : StoredTurnCount(s) = Cardinality(AcceptedOn(s))
        /\ \A s \in StoredSessionIds : \A p, q \in AcceptedOn(s) : \A n \in 0..NumRequests :
              (p # q /\ Reports(p, n)) => ~Reports(q, n)

(***************************************************************************)
(* C3. Concurrent requests on one session whose messages each carry an     *)
(* email: once all are answered, at most one auto-created lead exists for  *)
(* the session.                                                            *)
(***************************************************************************)
C3_LeadTriggerFiresOnce ==
    AllAnswered =>
        \A s \in StoredSessionIds :
            (\A p \in AcceptedOn(s) : HasEmail(p)) => Cardinality(AutoLeads(s)) <= 1

C5_EmailProvidedSticky ==
    [][\A s \in StoredSessionIds :
          StoredEmailProvided(s) => StoredEmailProvided(s)']_vars

\* the flag is set and a second request on the session, carrying an email,
\* has been answered as well
C5_Witness ==
    \E s \in StoredSessionIds : \E p, q \in AcceptedOn(s) :
        /\ p # q
        /\ StoredEmailProvided(s)
        /\ req[p].pc = "done" /\ req[q].pc = "done"
        /\ HasEmail(p) /\ HasEmail(q)
        /\ ~req[q].response.success

(***************************************************************************)
(* C6. The email step of a request on a session whose stored               *)
(* email_provided is false, with a message holding an email: the flag      *)
(* becomes true and exactly one lead is appended, with the extracted       *)
(* address and the note naming the session; no other step adds a lead.     *)
(***************************************************************************)
EmailStep(p) == req[p].pc = "lead" /\ req'[p].pc # "lead"

C6_EmailCaptureCreatesLead ==
    [][ /\ \A p \in Requests :
            EmailStep(p) =>
                LET email == extract_email(req[p].message)
                IN  ( /\ email # NoEmail
                      /\ ~StoredEmailProvided(req[p].session_id) ) =>
                    ( /\ StoredEmailProvided(req[p].session_id)'
                      /\ Len(leads') = Len(leads) + 1
                      /\ SubSeq(leads', 1, Len(leads)) = leads
                      /\ leads'[Len(leads')].email = email
                      /\ leads'[Len(leads')].notes = AutoNote(req[p].session_id) )
        /\ leads' # leads => \E p \in Requests : EmailStep(p) /\ HasEmail(p)
      ]_vars

\* "me c@d.io, a@b.co" was sent on session s1: the lead carries c@d.io
C6_Witness ==
    \E p \in Requests :
        /\ req[p].pc = "retrieve"
        /\ req[p].email_captured
        /\ req[p].message = MsgEmailC
        /\ req[p].session_id = "s1"
        /\ StoredEmailProvided("s1")
        /\ Len(leads) = 1
        /\ leads[1].email = <<"c","@","d",".","i","o">>
        /\ leads[1].notes = AutoNote("s1")

(***************************************************************************)
(* C7. Requests handled one after another: the prompt handed to the        *)
(* completion service asks for the email exactly when the session has not  *)
(* provided one, the turn that captures the email included.                *)
(***************************************************************************)
C7_SolicitsIffNoEmail ==
    \A p \in Requests :
        req[p].pc = "complete" =>
            (req[p].messages_payload.solicit <=> ~StoredEmailProvided(req[p].session_id))

\* the third turn of a session: the first asked, the second captured the
\* email, this one carries no email and does not ask
C7_Witness ==
    \E p \in Requests :
        /\ req[p].pc = "complete"
        /\ ~req[p].messages_payload.solicit
        /\ ~HasEmail(p)
        /\ req[p].new_turn_count = 3
        /\ \E q \in Requests : q < p /\ req[q].session_id = req[p].session_id /\ ~HasEmail(q)
                                 /\ Reports(q, 1)

(***************************************************************************)
(* Tenant isolation of the store.                                          *)
(***************************************************************************)
\* the tenants of the model: the client ids ingest_data resolves
TenantIds == {JsonGet(c, "demo_client") : c \in IngestClientIds}

\* what a query scoped to a tenant can return
Visible(client_id) == SearchResult(Matching(QueryArgs(TopK, client_id, "bm25")))

\* the step is an ingestion that wrote to the index
IngestionWrites == index' # index

\* C8: every query the chat endpoint issues to the store carries the
\* equality filter client_id = the requesting tenant, whichever sparse vector
\* goes with it, and no chunk it gets back has the client_id of another
\* tenant, whatever was ingested before.
C8_QueriesScopedToTenant ==
    \A p \in Requests :
        req[p].query_args.issued =>
            /\ req[p].query_args.filter = [field |-> "client_id", eq |-> req[p].client_id]
            /\ \A r \in req[p].context_results : r.metadata.client_id = req[p].client_id

\* a query of tenant A came back with chunks, with the empty sparse encoding,
\* while the index also holds chunks of tenant B
C8_Witness ==
    \E p \in Requests :
        /\ req[p].query_args.issued
        /\ req[p].query_args.sparse = "empty"
        /\ req[p].client_id = "A"
        /\ req[p].context_results # {}
        /\ \E id \in DOMAIN index : index[id].metadata.client_id = "B"

\* C9: an ingestion performed for one tenant, a URL another tenant has
\* already ingested included, leaves unchanged the set of chunks a query
\* scoped to any other tenant can return.
C9_IngestionLeavesOtherTenants ==
    [][\A a \in TenantIds :
          (IngestionWrites /\ ingest'.client_id # a) => Visible(a)' = Visible(a)]_vars

\* C10: every chunk in the store has a metadata client_id that is present
\* and non-empty, whether the ingestion request omitted client_id, supplied
\* it, or supplied the empty string.
C10_ClientIdNonEmpty ==
    \A id \in DOMAIN index :
        /\ "client_id" \in DOMAIN index[id].metadata
        /\ index[id].metadata.client_id # ""

(***************************************************************************)
(* The ingestion pipeline.                                                 *)
(***************************************************************************)
\* what an index holds of a url: the chunk positions and their texts
ContentOf(idx, url) ==
    {[chunk_index |-> idx[id].metadata.chunk_index, text |-> idx[id].metadata.text] :
        id \in {i \in DOMAIN idx : idx[i].metadata.url = url}}

\* the step is an ingestion of url that stored chunks over an earlier
\* ingestion of it and left its content as it was
Reingests(url) ==
    /\ ingest'.url = url
    /\ ingest'.data.success
    /\ ingest'.data.stored > 0
    /\ ContentOf(index, url) # {}
    /\ ContentOf(index', url) = ContentOf(index, url)

\* C11: an ingestion of a URL whose content is what the store already holds
\* of it writes under the ids of the earlier ingestion: the store holds the
\* same set of ids after it as before, no entry is duplicated.
C11_ReingestKeepsIds ==
    [][\A url \in Urls : Reingests(url) => DOMAIN index' = DOMAIN index]_vars

\* a three-chunk page was ingested over its own three chunks
C11_Witness ==
    /\ ingest.data.success
    /\ ingest.data.chunks > 1
    /\ ingest.data.stored = ingest.data.chunks
    /\ ingest.replaced = ingest.data.chunks
    /\ Cardinality(DOMAIN index) = ingest.data.chunks

(***************************************************************************)
(* The chunker.                                                            *)
(***************************************************************************)
\* the characters of a text that are not whitespace, in order
RECURSIVE NonSpace(_)
NonSpace(t) ==
    IF t = << >> THEN << >>
    ELSE (IF Head(t) \in Whitespace THEN << >> ELSE <<Head(t)>>) \o NonSpace(Tail(t))

\* the chunks of a list, one after the other
RECURSIVE Concat(_)
Concat(chunks) ==
    IF chunks = << >> THEN << >> ELSE Head(chunks) \o Concat(Tail(chunks))

\* the call returned a list
ChunksReturned == chunking.pc = "returned" /\ ~chunking.result.raised

\* C12: the chunks a call returns, concatenated in order, are the source text
\* up to whitespace: no character of the source is dropped, and none but
\* whitespace is added.
C12_ChunksReproduceSource ==
    ChunksReturned =>
        NonSpace(Concat(chunking.result.chunks)) = NonSpace(chunking.text)

\* C13: every call terminates by returning a list of chunks, a text with a
\* run longer than chunk_size that holds no separator included: the run is
\* split by character count, the call does not fail.
C13_ChunkerReturnsList ==
    chunking.pc = "returned" => ~chunking.result.raised

\* C14: every chunk of a returned list is at most chunk_size long.
C14_ChunksWithinSize ==
    ChunksReturned =>
        \A k \in 1..Len(chunking.result.chunks) :
            Len(chunking.result.chunks[k]) <= chunking.chunk_size

\* a text longer than chunk_size came back as several chunks, one of them
\* as long as chunk_size
C14_Witness ==
    /\ ChunksReturned
    /\ Len(chunking.text) > chunking.chunk_size
    /\ Len(chunking.result.chunks) > 1
    /\ \E k \in 1..Len(chunking.result.chunks) :
            Len(chunking.result.chunks[k]) = chunking.chunk_size

(***************************************************************************)
(* Streaming responses.                                                    *)
(***************************************************************************)
\* the response of request p is an event stream
Streams(p) == req[p].response.message = "text/event-stream"

\* the generator of request p has finished
StreamEnded(p) == Streams(p) /\ req[p].pc = "done"

IsTerminal(event) == event.type \in {"done", "error"}

\* no request arrived after p
Latest(p) == \A q \in Requests : q > p => req[q].pc = "idle"

\* C15: the events of a streamed response are content fragments followed by
\* one terminal event, done or error: nothing follows a terminal event, so
\* done and error never both occur, a finished stream ends with one, and the
\* done event carries the session_id, turn_count and email_provided of the
\* turn.
C15_StreamEndsWithOneTerminal ==
    \A p \in Requests :
        LET events == req[p].events
        IN  /\ \A k \in 1..Len(events) :
                  IF IsTerminal(events[k]) THEN k = Len(events)
                  ELSE events[k].type = "chunk"
            /\ StreamEnded(p) => (events # << >> /\ IsTerminal(events[Len(events)]))
            /\ \A k \in 1..Len(events) :
                  (events[k].type = "done" /\ Latest(p)) =>
                      /\ events[k].session_id = req[p].session_id
                      /\ events[k].turn_count = sessions[req[p].session_id].turn_count
                      /\ events[k].email_provided =
                             sessions[req[p].session_id].email_provided

\* a second streamed turn sent its fragments and then done
C15_Witness ==
    \E p \in Requests :
        /\ StreamEnded(p)
        /\ Len(req[p].events) = MaxFragments + 1
        /\ req[p].events[Len(req[p].events)].type = "done"
        /\ req[p].events[Len(req[p].events)].turn_count = 2

\* the assistant rows of the history
AssistantRows == {i \in 1..Len(messages) : messages[i].role = "assistant"}

\* the requests whose turn reached its end: a generator that sent done, or a
\* response that was not streamed and succeeded
Completed ==
    {p \in Requests :
        \/ StreamEnded(p) /\ req[p].events[Len(req[p].events)].type = "done"
        \/ req[p].pc = "done" /\ ~Streams(p) /\ req[p].response.status = 200}

\* request p, streamed, takes the step and the history changes in it
StreamAppends(p) == Streams(p) /\ req'[p] # req[p] /\ messages' # messages

\* the fragments sent so far, one after the other
RECURSIVE Produced(_)
Produced(events) ==
    IF events = << >> THEN << >>
    ELSE (IF Head(events).type = "chunk" THEN Head(events).content ELSE << >>)
         \o Produced(Tail(events))

\* C16: a streamed request appends its assistant message at most once, and
\* in the step that ends fragment production, with all the fragments sent
\* in it; a stream whose consumer went away produces no more fragments and
\* appends nothing, so the history has one assistant row per completed turn.
C16_StreamAppendsOnce ==
    /\ [](Cardinality(AssistantRows) = Cardinality(Completed))
    /\ [][\A p \in Requests :
            /\ StreamAppends(p) =>
                 /\ req'[p].pc = "done"
                 /\ req'[p].events[Len(req'[p].events)].type = "done"
                 /\ messages' = Append(messages,
                        [session_id |-> req[p].session_id, role |-> "assistant",
                         content |-> Produced(req[p].events)])
            /\ req[p].pc = "cancelled" => req'[p] = req[p]]_vars

\* one stream was cancelled after a fragment, another ran to its end, and
\* the history holds a single assistant message
C16_Witness ==
    /\ \E p \in Requests : req[p].pc = "cancelled" /\ req[p].events # << >>
    /\ \E p \in Requests : StreamEnded(p) /\ p \in Completed /\ Len(req[p].events) > 1
    /\ Cardinality(AssistantRows) = 1

(***************************************************************************)
(* Failures of the services.                                               *)
(***************************************************************************)
\* the store query of request p raised
QueryRaised(p) == req[p].query_args.raised

\* C17: when the store query of a chat turn fails, the turn goes on with an
\* empty result set, its context block is the placeholder, the completion
\* call is made and the request is answered with its text, not with an
\* error.
C17_QueryFailureDegrades ==
    /\ [](\A p \in Requests :
            QueryRaised(p) =>
                /\ req[p].context_results = {}
                /\ req[p].pc \in {"history", "complete"}
                /\ req[p].pc = "complete" => req[p].messages_payload.context = {NoContext})
    /\ [][\A p \in Requests :
            (QueryRaised(p) /\ req[p].pc = "complete" /\ req'[p] # req[p]) =>
                /\ req'[p].pc = "done"
                /\ req'[p].response.success
                /\ req'[p].response.status = 200
                /\ req'[p].response.response = ReplyText]_vars

\* the query of a turn raised while the index held chunks of its tenant,
\* and the turn is at the completion call
C17_Witness ==
    \E p \in Requests :
        /\ QueryRaised(p)
        /\ req[p].pc = "complete"
        /\ Matching(req[p].query_args) # {}

\* C18: an ingestion whose embedding call returned no vector, or fewer
\* vectors than chunks, fails and writes nothing: the pipeline never reports
\* a stored count that is short of its chunk count.
C18_PartialEmbeddingsAbort ==
    ~(ingest.data.stored > 0 /\ ingest.data.stored < ingest.data.chunks)

\* C19: an ingestion whose store write failed is reported as a failure with
\* zero chunks stored: the pipeline never reports success with nothing
\* stored.
C19_WriteFailureReported ==
    ingest.data.success => ingest.data.stored > 0

\* the results of the pipeline that stopped at the fetch or at the extraction
StoppedEarly ==
    {IngestFailure("Unable to fetch content", url) : url \in Urls}
        \cup {IngestFailure("Unable to extract text", url) : url \in Urls}

\* C20: when both fetch strategies fail, or the extracted text is empty, the
\* pipeline stops there and reports failure, whatever the later stages would
\* have done: the store is left as it is, and the result is never a success,
\* with zero chunks or otherwise.
C20_FetchOrExtractFailureStops ==
    /\ [](\A url \in Urls, text \in {PageEmpty, PageShort, PageLong, PageRun},
             n \in 0..MaxChunks, upsert_ok \in BOOLEAN :
            LET nofetch == ingest_url(url, "A", fetch_url(FALSE, FALSE).fetched, text, n,
                                      upsert_ok)
                notext  == ingest_url(url, "A", fetch_url(FALSE, TRUE).fetched, PageEmpty, n,
                                      upsert_ok)
            IN  /\ nofetch.result = IngestFailure("Unable to fetch content", url)
                /\ nofetch.index = index
                /\ notext.result = IngestFailure("Unable to extract text", url)
                /\ notext.index = index)
    /\ [][(ingest' # ingest /\ ingest'.data \in StoppedEarly) => index' = index]_vars

\* an ingestion stopped at the fetch, both strategies tried, over a store
\* that holds chunks
C20_Witness ==
    /\ ingest.data = IngestFailure("Unable to fetch content", "u1")
    /\ ingest.attempts = <<Attempt("playwright", FALSE), Attempt("requests", FALSE)>>
    /\ index # << >>

(***************************************************************************)
(* C21: the fetch strategies.                                              *)
(***************************************************************************)
\* the last request reached the pipeline
PipelineRan == ingest.status = 200

\* how often the last request attempted a strategy
TimesTried(strategy) ==
    Cardinality({k \in 1..Len(ingest.attempts) : ingest.attempts[k].strategy = strategy})

\* C21: fetch_url tries the browser strategy once and first; the HTTP GET
\* is attempted only after the browser strategy failed, and at most once; a
\* browser success ends the fetch without the GET; the fetch fails only
\* when both strategies failed; no strategy is attempted twice.
C21_FetchStrategiesOnceEach ==
    PipelineRan =>
        /\ ingest.attempts # << >>
        /\ ingest.attempts[1].strategy = "playwright"
        /\ TimesTried("playwright") = 1
        /\ TimesTried("requests") <= 1
        /\ TimesTried("playwright") + TimesTried("requests") = Len(ingest.attempts)
        /\ TimesTried("requests") = 1 <=> ~ingest.attempts[1].ok
        /\ ingest.attempts[1].ok => Len(ingest.attempts) = 1
        /\ ingest.data.message = "Unable to fetch content"
                <=> \A k \in 1..Len(ingest.attempts) : ~ingest.attempts[k].ok
        /\ ingest.data.message = "Unable to fetch content"
                => /\ Len(ingest.attempts) = 2
                   /\ ingest.attempts[2].strategy = "requests"

\* the browser strategy failed and the GET, tried once, gave the page that
\* was then stored
C21_Witness ==
    /\ PipelineRan
    /\ ingest.attempts = <<Attempt("playwright", FALSE), Attempt("requests", TRUE)>>
    /\ ingest.data.success
    /\ ingest.data.stored > 0

(***************************************************************************)
(* C22: a completion call that fails.                                      *)
(***************************************************************************)
\* the step in which request p learns that its completion call failed: the
\* handler's except (app.py:471-479) or the generator's (app.py:428-432)
CompletionFails(p) ==
    \/ /\ req[p].pc = "complete"
       /\ req'[p].pc = "done"
       /\ req'[p].response.status = 500
    \/ /\ req[p].pc \in {"gen_start", "gen_chunk"}
       /\ req'[p].pc = "done"
       /\ req'[p].events[Len(req'[p].events)].type = "error"

\* the error of the failed turn, as the caller gets it: the 500 response,
\* or the error event that ends the stream
ErrorReported(r) ==
    IF r.stream
    THEN r.events # << >> /\ r.events[Len(r.events)] = ErrorEvent
    ELSE r.response = create_response(FALSE, "Error processing request", 500)

\* an auto-created lead of session s with this address is stored
LeadStored(s, email) ==
    \E k \in 1..Len(leads) : leads[k].email = email /\ leads[k].notes = AutoNote(s)

\* C22: when the completion call of a turn fails, the request ends with a
\* reported error and the failing step leaves the sessions, the history
\* and the leads as they were, so it appends no assistant message and
\* rolls nothing back: the stored turn_count is the incremented one, the
\* user message is the last row of the history, and a lead and email flag
\* recorded in the turn are stored.
C22_CompletionFailureKeepsCommits ==
    [][\A p \in Requests :
          CompletionFails(p) =>
              LET s == req[p].session_id
              IN  /\ ErrorReported(req'[p])
                  /\ messages' = messages
                  /\ sessions' = sessions
                  /\ leads' = leads
                  /\ sessions[s].turn_count = req[p].new_turn_count
                  /\ messages # << >>
                  /\ messages[Len(messages)] =
                        [session_id |-> s, role |-> "user", content |-> req[p].message]
                  /\ req[p].email_captured =>
                        /\ sessions[s].email_provided
                        /\ LeadStored(s, extract_email(req[p].message))]_vars

\* a streamed turn that captured the email ended with the error event after
\* a fragment, and a later turn ended with the 500 response: the history
\* holds the two user messages and no assistant message
C22_Witness ==
    \E p, q \in Requests :
        /\ p < q
        /\ req[p].pc = "done" /\ req[p].stream /\ ErrorReported(req[p])
        /\ Len(req[p].events) = 2
        /\ req[q].pc = "done" /\ ~req[q].stream /\ ErrorReported(req[q])
        /\ Len(messages) = 2
        /\ \A k \in 1..2 : messages[k].role = "user"
        /\ sessions["s1"].turn_count = 2
        /\ sessions["s1"].email_provided
        /\ LeadStored("s1", extract_email(MsgEmailA))

(***************************************************************************)
(* C23: the persistence layer fails while the lead is recorded.            *)
(***************************************************************************)
\* the step in which request p, whose message carries the session's first
\* email address, leaves the lead creation without having recorded it
LeadCreationFails(p) ==
    /\ req[p].pc = "lead"
    /\ req'[p].pc # "lead"
    /\ ShouldCreateLead(extract_email(req[p].message), req[p].session_data)
    /\ ~req'[p].email_captured

\* C23: when the lead insert or the email_provided update raises, the chat
\* request fails closed: it ends there with an explicit error and does not
\* go on to retrieval and completion.
C23_LeadFailureFailsClosed ==
    [][\A p \in Requests :
          LeadCreationFails(p) =>
              /\ req'[p].pc = "done"
              /\ ~req'[p].response.success
              /\ req'[p].response.status = 500]_vars

(***************************************************************************)
(* C30: the email flag and the auto-created lead.                          *)
(***************************************************************************)
\* the step in which request p commits the lead and the flag together
\* (app.py:315-325)
LeadCommitted(p) ==
    /\ req[p].pc = "lead"
    /\ req'[p].email_captured
    /\ Len(leads') = Len(leads) + 1
    /\ leads'[Len(leads')].notes = AutoNote(req[p].session_id)
    /\ sessions'[req[p].session_id].email_provided

\* C30: a session's email_provided flag is set if and only if an
\* auto-created lead of the session is stored; a lead row is stored, and
\* the flag is set, only by the step that commits the two together, so a
\* failed lead creation leaves the flag false and persists no lead through
\* a later commit of the request.
C30_FlagIffLead ==
    /\ [](\A s \in DOMAIN sessions : sessions[s].email_provided <=> AutoLeads(s) # {})
    /\ [][\A s \in DOMAIN sessions :
            ( \/ leads' # leads
              \/ (s \in DOMAIN sessions' /\ sessions'[s].email_provided
                                              # sessions[s].email_provided) )
                => \E p \in Requests : LeadCommitted(p)]_vars

(***************************************************************************)
(* C24: the query embedding cannot be produced.                            *)
(***************************************************************************)
\* request p is past the embedding: at the prompt, at the completion call
\* or in its stream
PastEmbedding(p) == req[p].pc \in {"history", "complete", "gen_start", "gen_chunk"}

\* the step in which request p leaves the embedding without a vector
EmbeddingFails(p) ==
    /\ req[p].pc = "retrieve"
    /\ req'[p].pc # "retrieve"
    /\ req'[p].embeddings = << >>

\* C24: a store query is issued, and the prompt and the completion call are
\* reached, only with a query embedding; when the embedding cannot be
\* produced the request ends there with the 500 error, and the step changes
\* nothing: no assistant message is appended, and the stored state is what
\* the turn had committed (the incremented turn_count, the user message as
\* last row, the flag and lead when the turn captured the email).
C24_NoEmbeddingAborts ==
    /\ [](\A p \in Requests :
            (PastEmbedding(p) \/ req[p].query_args.issued) => req[p].embeddings # << >>)
    /\ [][\A p \in Requests :
            EmbeddingFails(p) =>
                LET s == req[p].session_id
                IN  /\ req'[p].pc = "done"
                    /\ req'[p].response = create_response(FALSE,
                            "Unable to generate message embedding vector", 500)
                    /\ ~req'[p].query_args.issued
                    /\ UNCHANGED <<sessions, messages, leads, index>>
                    /\ sessions[s].turn_count = req[p].new_turn_count
                    /\ messages # << >>
                    /\ messages[Len(messages)] =
                          [session_id |-> s, role |-> "user", content |-> req[p].message]
                    /\ req[p].email_captured =>
                          /\ sessions[s].email_provided
                          /\ LeadStored(s, extract_email(req[p].message))]_vars

\* the turn that captured the email ended without an embedding: the flag
\* and the lead are stored, the history holds the user message alone
C24_Witness ==
    /\ req[1].pc = "done"
    /\ req[1].response.message = "Unable to generate message embedding vector"
    /\ req[1].response.status = 500
    /\ Len(messages) = 1
    /\ messages[1].role = "user"
    /\ sessions["s1"].turn_count = 1
    /\ sessions["s1"].email_provided
    /\ LeadStored("s1", extract_email(MsgEmailA))

(***************************************************************************)
(* C25: re-ingesting a URL whose page got shorter.                         *)
(***************************************************************************)
\* the response r reports a successful ingestion that stored all its chunks
FullyStored(r) ==
    r.data.success /\ r.data.chunks > 0 /\ r.data.stored = r.data.chunks

\* the store idx holds for the URL of response r exactly its chunks 0..n-1
HoldsExactly(r, idx) ==
    {id \in DOMAIN idx : idx[id].metadata.url = r.url}
        = {ChunkId(r.url, i) : i \in 0..(r.data.chunks - 1)}

\* C25: a successful ingestion of a URL that stored all its n chunks, made
\* over a store holding exactly the chunks of the previous such ingestion
\* of the URL, leaves for that URL exactly the chunks with indices 0..n-1,
\* and none left over from the earlier ingestion when that gave more.
C25_ReingestLeavesNoLeftovers ==
    [][(/\ FullyStored(ingest) /\ HoldsExactly(ingest, index)
        /\ FullyStored(ingest') /\ ingest'.url = ingest.url)
            => HoldsExactly(ingest', index')]_vars

(***************************************************************************)
(* C28: what the ingestion endpoint tells its caller.                      *)
(***************************************************************************)
\* C28: the ingestion endpoint never returns its success envelope (success
\* true, message "Data ingestion successful") around a pipeline result
\* whose success is false.
C28_EnvelopeSurfacesFailure ==
    (PipelineRan /\ ~ingest.data.success)
        => ~(ingest.success /\ ingest.message = "Data ingestion successful")

(***************************************************************************)
(* C26: the history window of the prompt.                                  *)
(***************************************************************************)
\* the rows of session s, in creation order
RowsOf(s) == SelectSeq(messages, LAMBDA m : m.session_id = s)

\* request p has built its prompt and not yet got the completion
Prompted(p) == req[p].pc = "complete"

\* C26: in a turn executed on its own, the history placed in the prompt is
\* the most recent messages of the request's session and of no other, at
\* most 6 of them, in creation order, and its last element is the user
\* message of the request.
C26_HistoryWindow ==
    \A p \in Requests :
        Prompted(p) =>
            LET rows    == RowsOf(req[p].session_id)
                n       == Len(rows)
                k       == IF n < 6 THEN n ELSE 6
                history == req[p].messages_payload.history
            IN  /\ Len(history) = k
                /\ \A j \in 1..k :
                      history[j] = [role |-> rows[n - k + j].role,
                                    content |-> rows[n - k + j].content]
                /\ k > 0
                /\ history[k] = [role |-> "user", content |-> req[p].message]

\* a prompt built when the session holds more than 6 messages and another
\* session has messages too: the window holds 6 and starts with an
\* assistant message, the oldest user message having dropped out
C26_Witness ==
    \E p \in Requests :
        /\ Prompted(p)
        /\ req[p].session_id = "s1"
        /\ Len(RowsOf("s1")) > 6
        /\ Len(RowsOf("default_session")) > 0
        /\ Len(req[p].messages_payload.history) = 6
        /\ req[p].messages_payload.history[1].role = "assistant"
        /\ req[p].message = MsgEmailA

(***************************************************************************)
(* C27: the session is looked up or created.                               *)
(***************************************************************************)
\* the step in which request p passes validation and looks its session up
LooksUp(p) == req[p].pc = "idle" /\ req'[p].pc \notin {"idle", "done"}

\* the step in which request p inserts its session
Creates(p) == req[p].pc = "insert_session" /\ req'[p].pc = "update_turn"

\* the accepted requests on the session of p that arrived before p
EarlierOn(p) == {q \in AcceptedOn(req[p].session_id) : q < p}

\* C27: a request whose session_id has no record goes on to create the
\* session, with turn_count 0, email_provided false and the request's
\* client_id, leaving the other sessions alone, and only then increments;
\* a request whose session_id has a record creates none; session records
\* appear in no other way; and the first accepted request of a session,
\* when it is answered, reports turn_count 1.
C27_SessionCreatedOnFirstRequest ==
    /\ [][\A p \in Requests :
            /\ LooksUp(p) =>
                  /\ sessions' = sessions
                  /\ req'[p].pc = IF HasSession(req'[p].session_id)
                                  THEN "update_turn" ELSE "insert_session"
            /\ Creates(p) =>
                  /\ ~HasSession(req[p].session_id)
                  /\ DOMAIN sessions' = DOMAIN sessions \cup {req[p].session_id}
                  /\ sessions'[req[p].session_id] =
                        [client_id |-> req[p].client_id, email_provided |-> FALSE,
                         turn_count |-> 0]
                  /\ \A s \in DOMAIN sessions : sessions'[s] = sessions[s]]_vars
    /\ [][DOMAIN sessions' # DOMAIN sessions => \E p \in Requests : Creates(p)]_vars
    /\ [](\A p \in Requests :
            (req[p].pc = "done" /\ req[p].response.success /\ EarlierOn(p) = {})
                => req[p].response.turn_count = 1)

\* tenant B's request created a second session after tenant A's had
\* created the first, each answered with turn_count 1; a third request, on
\* the first session and by another tenant, created none and was told 2
C27_Witness ==
    /\ DOMAIN sessions = {"s1", "default_session"}
    /\ sessions["s1"].client_id = "A"
    /\ sessions["default_session"].client_id = "B"
    /\ req[1].session_id = "s1" /\ Reports(1, 1)
    /\ req[2].session_id = "default_session" /\ Reports(2, 1)
    /\ req[3].session_id = "s1" /\ req[3].client_id = "demo_client" /\ Reports(3, 2)

(***************************************************************************)
(* C29: a request rejected at validation.                                  *)
(***************************************************************************)
\* the step in which request p is rejected by a check of app.py:252-277
Rejects(p) == req[p].pc = "idle" /\ Rejected(p)'

\* C29: a chat request rejected at validation (no JSON body, empty
\* message, a service not initialised) changes no state: the sessions, with
\* their turn_count and email_provided, the messages, the leads and the
\* store are after the request what they were before it, and the request
\* takes no further step.
C29_RejectionChangesNothing ==
    /\ [][\A p \in Requests :
            Rejects(p) =>
                /\ UNCHANGED <<sessions, messages, leads, index>>
                /\ ~req'[p].response.success
                /\ req'[p].response.status \in {400, 500}]_vars
    /\ [][\A p \in Requests : Rejected(p) => req'[p] = req[p]]_vars

\* over a stored conversation, a request without a body and a request with
\* an empty message were rejected after a turn that was answered and had
\* recorded a lead
C29_Witness ==
    /\ Reports(1, 3)
    /\ req[2].pc = "done"
    /\ req[2].response.message = "Request body must contain JSON data"
    /\ req[3].pc = "done"
    /\ req[3].response.message = "Message content cannot be empty"
    /\ Len(messages) = 6
    /\ Len(leads) = 1
    /\ sessions["s1"].turn_count = 3

(***************************************************************************)
(* C31: the message history is append-only, one user message and at most   *)
(* one assistant message per request.                                      *)
(***************************************************************************)
\* request p has got past the INSERT of its user message (app.py:305-307)
Posted(p) ==
    /\ Accepted(p)
    /\ req[p].pc \notin {"insert_session", "update_turn", "store_user"}
    /\ req[p].response.message # "Internal server error"

\* the rows request p is to have appended so far: its user message once it
\* is past the insert, and after it the assistant message once its turn is
\* completed
TurnRows(p) ==
    (IF Posted(p)
     THEN <<[session_id |-> req[p].session_id, role |-> "user",
             content |-> req[p].message]>>
     ELSE << >>)
    \o (IF p \in Completed
        THEN <<[session_id |-> req[p].session_id, role |-> "assistant",
                content |-> IF Streams(p) THEN Produced(req[p].events)
                            ELSE req[p].response.response]>>
        ELSE << >>)

\* the rows of requests 1..n, in the order the requests were served
RECURSIVE Ledger(_)
Ledger(n) == IF n = 0 THEN << >> ELSE Ledger(n - 1) \o TurnRows(n)

\* the step in which request p stores its user message
StoresUser(p) == req[p].pc = "store_user" /\ req'[p].pc = "lead"

\* the step in which request p, past retrieval, ends its turn
EndsTurn(p) ==
    /\ req[p].pc \in {"complete", "gen_start", "gen_chunk"}
    /\ req'[p].pc = "done"

\* C31: for requests served one after another, the history is at every
\* moment the rows of the requests in order: of each accepted request that
\* has reached retrieval exactly one user message, followed by one
\* assistant message if the turn was completed and by none otherwise. A
\* step that changes the history appends one row and leaves the rows
\* before it as they were; it is the step of a request that stores its user
\* message before the email check and retrieval, or the step that ends the
\* turn of a request, which appends an assistant row of its session.
C31_HistoryAppendOnly ==
    /\ [](messages = Ledger(NumRequests))
    /\ [][messages' # messages =>
            /\ Len(messages') = Len(messages) + 1
            /\ SubSeq(messages', 1, Len(messages)) = messages
            /\ \E p \in Requests :
                  \/ /\ StoresUser(p)
                     /\ messages'[Len(messages')] =
                           [session_id |-> req[p].session_id, role |-> "user",
                            content |-> req[p].message]
                  \/ /\ EndsTurn(p)
                     /\ messages'[Len(messages')].role = "assistant"
                     /\ messages'[Len(messages')].session_id = req[p].session_id]_vars
    /\ [][\A p \in Requests :
            (req[p].pc = "store_user" /\ req'[p] # req[p]) =>
                (StoresUser(p) /\ Len(messages') = Len(messages) + 1)]_vars

\* three turns of a session: a streamed one that ran to its end, one whose
\* completion call raised, and one answered in full; the history holds the
\* three user messages and two assistant messages
C31_Witness ==
    /\ AllAnswered
    /\ \E p \in Completed : Streams(p) /\ Len(req[p].events) > 1
    /\ \E p \in Completed : ~Streams(p)
    /\ \E p \in Requests : req[p].response.message = "Error processing request"
    /\ Len(messages) = 5
    /\ Len(SelectSeq(messages, LAMBDA m : m.role = "user")) = 3

(***************************************************************************)
(* C32: concurrent first requests of a session.                            *)
(***************************************************************************)
\* request p was answered with the 500 of the handler's outer except
\* (app.py:481-487), which in the model only the session insert reaches
FailedAtSessionInsert(p) ==
    /\ req[p].pc = "done"
    /\ req[p].response.status = 500
    /\ req[p].response.message = "Internal server error"

\* C32: of the requests that found no record of their session_id and went
\* on to insert one, none is answered with the error of the insert: each
\* is served, whichever of them created the session.
C32_ConcurrentFirstRequestsServed ==
    \A p \in Requests : Accepted(p) => ~FailedAtSessionInsert(p)

(***************************************************************************)
(* C33: the client_id of a session.                                        *)
(***************************************************************************)
\* the first accepted request on session s
FirstOn(s) == MinOf(AcceptedOn(s))

\* request p has run its store query and not yet returned
Retrieved(p) == req[p].pc \in {"history", "complete"}

\* C33: the client_id a session records is the one of the request that
\* created it and no step changes it, whatever client_id later requests on
\* the session carry; the store query of a request is filtered by the
\* client_id of the request, and what it returns are the vectors of that
\* tenant, also when the session records another.
C33_SessionClientIdFixed ==
    /\ [][\A s \in DOMAIN sessions :
            /\ s \in DOMAIN sessions'
            /\ sessions'[s].client_id = sessions[s].client_id]_vars
    /\ [](\A s \in DOMAIN sessions :
            /\ AcceptedOn(s) # {}
            /\ sessions[s].client_id = req[FirstOn(s)].client_id)
    /\ [](\A p \in Requests :
            Retrieved(p) =>
                /\ req[p].query_args.issued
                /\ req[p].query_args.filter = [field |-> "client_id", eq |-> req[p].client_id]
                /\ req[p].context_results = Visible(req[p].client_id)
                /\ \A r \in req[p].context_results :
                      r.metadata.client_id = req[p].client_id)

\* tenant B's request on a session that tenant A's request created: the
\* session still records A, and the request got tenant B's page and
\* nothing of tenant A's
C33_Witness ==
    \E p \in Requests :
        /\ req[p].pc = "complete"
        /\ req[p].session_id = "s1"
        /\ req[p].client_id = "B"
        /\ req[p].new_turn_count = 2
        /\ sessions["s1"].client_id = "A"
        /\ req[p].context_results # {}
        /\ \A r \in req[p].context_results : r.metadata.url = "u2"

====
